---- MODULE Spec2Model ----
(***************************************************************************)
(* Model of run_agentetic_app.py: main() wires a FileAccessAgent and a     *)
(* PythonExecAgent together, seeds the second with context, runs an        *)
(* interactive question loop and releases both agents in a finally block.  *)
(*                                                                         *)
(* Every blocking step (a collaborator call, the console read, the setup   *)
(* prints) is one action.  A collaborator call returns ("ok"), raises an   *)
(* Exception ("error") or is cut short by KeyboardInterrupt ("interrupt"). *)
(* Text is a sequence of one-character strings, so that strip() and        *)
(* lower() are computed rather than assumed.                               *)
(***************************************************************************)
EXTENDS Integers, Sequences, FiniteSets, TLC

VARIABLES
    pc,                    \* position of main()
    csv_exists,            \* result of os.path.exists(csv_path): "unchecked", "yes", "no"
    file_ingestion_agent,  \* None or "file"
    data_analysis_agent,   \* None or "data"
    pending,               \* exception in flight: "none", "error", "interrupt"
    status,                \* exit status of the process, Running until it exits
    calls,                 \* every collaborator call made so far, in order
    context,               \* conversation context held by the PythonExecAgent
    inputs,                \* raw console lines read so far, in order
    user_input,            \* the stripped line of the current iteration
    prompts,               \* number of question prompts printed
    left                   \* how the guarded body (lines 77-111) was left

vars == <<pc, csv_exists, file_ingestion_agent, data_analysis_agent, pending,
          status, calls, context, inputs, user_input, prompts, left>>

----------------------------------------------------------------------------
(* Bounds *)

\* ordinary questions the console delivers before it must deliver "exit",
\* end-of-input or an interrupt
MaxQuestions == 2

----------------------------------------------------------------------------
(* Values *)

None == "None"
Running == -1

\* the dataset prompt (lines 47-60) and the text file_ingestion_agent.task returns
prompt == <<"P">>
file_ingestion_agent_output == <<"F">>
NoArg == <<>>

Whitespace == {" ", "\t"}

\* console lines the user may type
Lines ==
    { <<"e","x","i","t">>,
      <<"E","X","I","T">>,
      <<" ","E","x","i","t","\t">>,
      <<"e","x"," ","i","t">>,
      <<"e","x","i","t","s">>,
      <<>>,
      <<" ">>,
      <<" ","Q"," ">> }

\* outcomes of a blocking collaborator call
Outcomes == {"ok", "error", "interrupt"}

----------------------------------------------------------------------------
(* str.strip() and str.lower() *)

RECURSIVE LStrip(_)
LStrip(s) ==
    IF s # <<>> /\ Head(s) \in Whitespace THEN LStrip(Tail(s)) ELSE s

RECURSIVE RStrip(_)
RStrip(s) ==
    IF s # <<>> /\ s[Len(s)] \in Whitespace
    THEN RStrip(SubSeq(s, 1, Len(s) - 1))
    ELSE s

\* variant: the line is used as read, without strip()
StripOmitted(s) == s

Strip(s) == RStrip(LStrip(s))

LowerChar(c) ==
    CASE c = "E" -> "e"
      [] c = "X" -> "x"
      [] c = "I" -> "i"
      [] c = "T" -> "t"
      [] c = "Q" -> "q"
      [] OTHER -> c

Lower(s) == [k \in 1..Len(s) |-> LowerChar(s[k])]

\* variant: the comparison without lower()
IsExitCommandCaseSensitive(s) == s = <<"e","x","i","t">>

\* line 97: user_input.lower() == "exit"
IsExitCommand(s) == Lower(s) = <<"e","x","i","t">>

----------------------------------------------------------------------------
(* Exception handlers *)

\* line 93: except (EOFError, KeyboardInterrupt)
InputGuardCatches(exc) == exc \in {"eof", "interrupt"}

\* variant: the per-question guard is a bare except
QuestionGuardCatchesAll(exc) == TRUE

\* variant: task(question) is called without a guard
QuestionGuardMissing(exc) == FALSE

\* line 108: except Exception
QuestionGuardCatches(exc) == exc = "error"

\* variant: the cleanup guard lets the Exception through
CleanupGuardRethrows(exc) == FALSE

\* lines 118 and 125: except Exception
CleanupGuardCatches(exc) == exc = "error"

\* variant: cleanup is called whether or not the handle was assigned
NeedsCleanupAlways(agent) == TRUE

\* line 115 and 122: if <agent>:
NeedsCleanup(agent) == agent # None

\* variant: the Exception handler logs but does not call sys.exit(1)
OuterStatusErrorSwallowed(exc) == 0

\* variant: KeyboardInterrupt falls into the crash handler
OuterStatusInterruptCrashes(exc) ==
    CASE exc = "interrupt" -> 1
      [] exc = "error" -> 1
      [] OTHER -> 0

\* lines 129-134 and the normal return of main(): the exit status
OuterStatus(exc) ==
    CASE exc = "interrupt" -> 0
      [] exc = "error" -> 1
      [] OTHER -> 0

Call(agent, op, arg, result) ==
    [agent |-> agent, op |-> op, arg |-> arg, result |-> result]

\* an exception leaves the inner try body: the finally block runs next
Raise(exc) ==
    /\ pending' = exc
    /\ left' = exc
    /\ pc' = "cleanup_file"

----------------------------------------------------------------------------
Init ==
    /\ pc = "setup"
    /\ csv_exists = "unchecked"
    /\ file_ingestion_agent = None
    /\ data_analysis_agent = None
    /\ pending = "none"
    /\ status = Running
    /\ calls = <<>>
    /\ context = <<>>
    /\ inputs = <<>>
    /\ user_input = <<>>
    /\ prompts = 0
    /\ left = "running"

\* lines 46-64: build the prompt, print it, log; an interrupt here reaches
\* the outermost handler directly
Setup ==
    /\ pc = "setup"
    /\ \E r \in {"ok", "interrupt"} :
          IF r = "ok"
          THEN /\ pc' = "check"
               /\ UNCHANGED pending
          ELSE /\ pc' = "outer"
               /\ pending' = "interrupt"
    /\ UNCHANGED <<csv_exists, file_ingestion_agent, data_analysis_agent,
                   status, calls, context, inputs, user_input, prompts, left>>

\* variant: the guard reports the missing file but does not exit
CheckFileWithoutExit ==
    /\ pc = "check"
    /\ \E e \in {"yes", "no"} :
          /\ csv_exists' = e
          /\ pc' = "construct_file"
    /\ UNCHANGED <<file_ingestion_agent, data_analysis_agent, pending, status,
                   calls, context, inputs, user_input, prompts, left>>

\* lines 66-75: the file existence guard; sys.exit(1) raises SystemExit,
\* which neither outer handler catches
CheckFile ==
    /\ pc = "check"
    /\ \E e \in {"yes", "no"} :
          /\ csv_exists' = e
          /\ IF e = "yes"
             THEN /\ pc' = "construct_file"
                  /\ UNCHANGED status
             ELSE /\ pc' = "done"
                  /\ status' = 1
    /\ UNCHANGED <<file_ingestion_agent, data_analysis_agent, pending,
                   calls, context, inputs, user_input, prompts, left>>

\* line 78: file_ingestion_agent = FileAccessAgent()
ConstructFile ==
    /\ pc = "construct_file"
    /\ \E r \in Outcomes :
          /\ calls' = Append(calls, Call("file", "init", NoArg, r))
          /\ IF r = "ok"
             THEN /\ file_ingestion_agent' = "file"
                  /\ pc' = "construct_data"
                  /\ UNCHANGED <<pending, left>>
             ELSE /\ Raise(r)
                  /\ UNCHANGED file_ingestion_agent
    /\ UNCHANGED <<csv_exists, data_analysis_agent, status, context, inputs,
                   user_input, prompts>>

\* line 79: data_analysis_agent = PythonExecAgent(...)
ConstructData ==
    /\ pc = "construct_data"
    /\ \E r \in Outcomes :
          /\ calls' = Append(calls, Call("data", "init", NoArg, r))
          /\ IF r = "ok"
             THEN /\ data_analysis_agent' = "data"
                  /\ pc' = "ingest"
                  /\ UNCHANGED <<pending, left>>
             ELSE /\ Raise(r)
                  /\ UNCHANGED data_analysis_agent
    /\ UNCHANGED <<csv_exists, file_ingestion_agent, status, context, inputs,
                   user_input, prompts>>

\* lines 81-82: file_ingestion_agent_output = file_ingestion_agent.task(prompt)
Ingest ==
    /\ pc = "ingest"
    /\ \E r \in Outcomes :
          /\ calls' = Append(calls, Call(file_ingestion_agent, "task", prompt, r))
          /\ IF r = "ok"
             THEN /\ pc' = "add_prompt"
                  /\ UNCHANGED <<pending, left>>
             ELSE Raise(r)
    /\ UNCHANGED <<csv_exists, file_ingestion_agent, data_analysis_agent,
                   status, context, inputs, user_input, prompts>>

\* PythonExecAgent.add_context: the agent appends the text to its context
add_context(ctx, text) == Append(ctx, text)

\* data_analysis_agent.add_context(text), then continue at next
AddContext(here, text, next) ==
    /\ pc = here
    /\ \E r \in Outcomes :
          /\ calls' = Append(calls, Call(data_analysis_agent, "add_context", text, r))
          /\ IF r = "ok"
             THEN /\ context' = add_context(context, text)
                  /\ pc' = next
                  /\ UNCHANGED <<pending, left>>
             ELSE /\ Raise(r)
                  /\ UNCHANGED context
    /\ UNCHANGED <<csv_exists, file_ingestion_agent, data_analysis_agent,
                   status, inputs, user_input, prompts>>

\* variant: the file-access output is passed where the prompt belongs
AddPromptContextWrongText == AddContext("add_prompt", file_ingestion_agent_output, "add_output")

\* variant: the loop starts after the first add_context call
AddPromptContextOnly == AddContext("add_prompt", prompt, "await_input")

\* line 85
AddPromptContext == AddContext("add_prompt", prompt, "add_output")

\* line 86
AddOutputContext == AddContext("add_output", file_ingestion_agent_output, "await_input")

\* the number of ordinary questions read so far
Questions == Cardinality({k \in 1..Len(inputs) : ~IsExitCommand(Strip(inputs[k]))})

\* variant: an empty question is skipped and the loop prompts again
AwaitInputSkipsEmpty ==
    /\ pc = "await_input"
    /\ prompts' = prompts + 1
    /\ \/ \E line \in Lines :
             /\ IsExitCommand(Strip(line)) \/ Questions < MaxQuestions
             /\ inputs' = Append(inputs, line)
             /\ user_input' = Strip(line)
             /\ IF IsExitCommand(Strip(line))
                THEN /\ pc' = "cleanup_file"
                     /\ left' = "exit"
                ELSE /\ pc' = IF Strip(line) = <<>> THEN "await_input" ELSE "ask"
                     /\ UNCHANGED left
       \/ \E exc \in {"eof", "interrupt"} :
             /\ InputGuardCatches(exc)
             /\ pc' = "cleanup_file"
             /\ left' = IF exc = "eof" THEN "eof" ELSE "sigint"
             /\ UNCHANGED <<inputs, user_input>>
    /\ UNCHANGED <<csv_exists, file_ingestion_agent, data_analysis_agent,
                   pending, status, calls, context>>

\* lines 89-99: print the question prompt, read a line, strip it, test for exit
AwaitInput ==
    /\ pc = "await_input"
    /\ prompts' = prompts + 1
    /\ \/ \E line \in Lines :
             /\ IsExitCommand(Strip(line)) \/ Questions < MaxQuestions
             /\ inputs' = Append(inputs, line)
             /\ user_input' = Strip(line)
             /\ IF IsExitCommand(Strip(line))
                THEN /\ pc' = "cleanup_file"
                     /\ left' = "exit"
                ELSE /\ pc' = "ask"
                     /\ UNCHANGED left
       \/ \E exc \in {"eof", "interrupt"} :
             /\ InputGuardCatches(exc)
             /\ pc' = "cleanup_file"
             /\ left' = IF exc = "eof" THEN "eof" ELSE "sigint"
             /\ UNCHANGED <<inputs, user_input>>
    /\ UNCHANGED <<csv_exists, file_ingestion_agent, data_analysis_agent,
                   pending, status, calls, context>>

\* lines 101-111: data_analysis_agent.task(user_input) under except Exception
Ask ==
    /\ pc = "ask"
    /\ \E r \in Outcomes :
          /\ calls' = Append(calls, Call(data_analysis_agent, "task", user_input, r))
          /\ IF r = "ok" \/ QuestionGuardCatches(r)
             THEN /\ pc' = "await_input"
                  /\ UNCHANGED <<pending, left>>
             ELSE Raise(r)
    /\ UNCHANGED <<csv_exists, file_ingestion_agent, data_analysis_agent,
                   status, context, inputs, user_input, prompts>>

\* variant: the guard turns a caught cleanup failure into the run's error
CleanupFailureEscalates(here, agent, next) ==
    /\ pc = here
    /\ IF NeedsCleanup(agent)
       THEN \E r \in Outcomes :
               /\ calls' = Append(calls, Call(agent, "cleanup", NoArg, r))
               /\ IF r = "ok"
                  THEN /\ pc' = next
                       /\ UNCHANGED pending
                  ELSE IF CleanupGuardCatches(r)
                  THEN /\ pc' = next
                       /\ pending' = IF pending = "none" THEN r ELSE pending
                  ELSE /\ pc' = "outer"
                       /\ pending' = r
       ELSE /\ pc' = next
            /\ UNCHANGED <<calls, pending>>
    /\ UNCHANGED <<csv_exists, file_ingestion_agent, data_analysis_agent,
                   status, context, inputs, user_input, prompts, left>>

\* one guarded cleanup of the finally block: skipped when the handle is
\* None; an exception the guard does not catch replaces the one in flight
\* and leaves the finally block
Cleanup(here, agent, next) ==
    /\ pc = here
    /\ IF NeedsCleanup(agent)
       THEN \E r \in Outcomes :
               /\ calls' = Append(calls, Call(agent, "cleanup", NoArg, r))
               /\ IF r = "ok" \/ CleanupGuardCatches(r)
                  THEN /\ pc' = next
                       /\ UNCHANGED pending
                  ELSE /\ pc' = "outer"
                       /\ pending' = r
       ELSE /\ pc' = next
            /\ UNCHANGED <<calls, pending>>
    /\ UNCHANGED <<csv_exists, file_ingestion_agent, data_analysis_agent,
                   status, context, inputs, user_input, prompts, left>>

\* lines 115-120
CleanupFile == Cleanup("cleanup_file", file_ingestion_agent, "cleanup_data")

\* lines 122-127
CleanupData == Cleanup("cleanup_data", data_analysis_agent, "outer")

\* lines 129-134, or main() returning normally: the process exits
Outer ==
    /\ pc = "outer"
    /\ status' = OuterStatus(pending)
    /\ pc' = "done"
    /\ UNCHANGED <<csv_exists, file_ingestion_agent, data_analysis_agent,
                   pending, calls, context, inputs, user_input, prompts, left>>

Next ==
    \/ Setup
    \/ CheckFile
    \/ ConstructFile
    \/ ConstructData
    \/ Ingest
    \/ AddPromptContext
    \/ AddOutputContext
    \/ AwaitInput
    \/ Ask
    \/ CleanupFile
    \/ CleanupData
    \/ Outer

Spec == Init /\ [][Next]_vars

\* main() runs on one thread and every blocking call returns or raises, so a
\* step that can be taken is eventually taken
FairSpec == Spec /\ WF_vars(Next)

----------------------------------------------------------------------------
TypeOK ==
    /\ pc \in {"setup", "check", "construct_file", "construct_data", "ingest",
               "add_prompt", "add_output", "await_input", "ask",
               "cleanup_file", "cleanup_data", "outer", "done"}
    /\ csv_exists \in {"unchecked", "yes", "no"}
    /\ file_ingestion_agent \in {None, "file"}
    /\ data_analysis_agent \in {None, "data"}
    /\ pending \in {"none", "error", "interrupt"}
    /\ status \in {Running, 0, 1}
    /\ prompts \in Nat
    /\ left \in {"running", "exit", "eof", "sigint", "error", "interrupt"}

----------------------------------------------------------------------------
(* Observations over the call log, used by the properties below *)

CallIndex == 1..Len(calls)

Count(agent, op) ==
    Cardinality({k \in CallIndex : calls[k].agent = agent /\ calls[k].op = op})

\* the constructor of the agent returned
Constructed(agent) ==
    \E k \in CallIndex : calls[k] = Call(agent, "init", NoArg, "ok")

CleanupResult(agent, result) ==
    \E k \in CallIndex : calls[k] = Call(agent, "cleanup", NoArg, result)

\* some cleanup() raised an Exception
CleanupFailed == CleanupResult("file", "error") \/ CleanupResult("data", "error")

\* a KeyboardInterrupt arrived while a cleanup() was running
TeardownInterrupted ==
    CleanupResult("file", "interrupt") \/ CleanupResult("data", "interrupt")

InTeardownOrAfter == pc \in {"cleanup_file", "cleanup_data", "outer", "done"}

----------------------------------------------------------------------------
(* C1 *)

\* C1: when the process has exited, every agent whose constructor returned
\* has had cleanup() invoked exactly once.
C1_CleanupExactlyOnce ==
    pc = "done" =>
        \A a \in {"file", "data"} : Constructed(a) => Count(a, "cleanup") = 1

----------------------------------------------------------------------------
(* C2 *)

----------------------------------------------------------------------------
(* C3 *)

\* C3: when the existence check finds the data file absent, the process has
\* exited with status 1, no collaborator was ever called or constructed and
\* no question prompt was printed.
C3_MissingFileExits ==
    csv_exists = "no" =>
        /\ pc = "done"
        /\ status = 1
        /\ calls = <<>>
        /\ file_ingestion_agent = None
        /\ data_analysis_agent = None
        /\ context = <<>>
        /\ prompts = 0
        /\ inputs = <<>>

C3_Witness == csv_exists = "no" /\ pc = "done" /\ status = 1

----------------------------------------------------------------------------
(* C4 *)

IsQuestionCall(k, result) ==
    calls[k].agent = "data" /\ calls[k].op = "task" /\ calls[k].result = result

\* C4: the step in which data_analysis_agent.task(question) raises an
\* Exception returns to the prompt with nothing in flight: the session is
\* not terminated, the body is not left and no cleanup is triggered.
C4_ErrorIsolation ==
    [][(pc = "ask" /\ calls'[Len(calls')].result = "error") =>
          /\ pc' = "await_input"
          /\ pending' = "none"
          /\ left' = "running"
          /\ status' = Running
          /\ Count("file", "cleanup") + Count("data", "cleanup") = 0]_vars

\* a failed question followed by a question that was read and answered
C4_Witness ==
    \E k \in CallIndex :
        /\ k < Len(calls)
        /\ IsQuestionCall(k, "error")
        /\ IsQuestionCall(k + 1, "ok")
        /\ Len(inputs) >= 2
        /\ prompts >= 2

----------------------------------------------------------------------------
(* C5 *)

ExitWord == <<"e","x","i","t">>

UpperOf(c) ==
    CASE c = "e" -> "E"
      [] c = "x" -> "X"
      [] c = "i" -> "I"
      [] c = "t" -> "T"

\* the line is the word exit in any casing between runs of whitespace
SpelledExit(line) ==
    \E lead \in 0..Len(line) :
        \E trail \in 0..Len(line) :
            /\ lead + Len(ExitWord) + trail = Len(line)
            /\ \A k \in 1..lead : line[k] \in Whitespace
            /\ \A k \in (Len(line) - trail + 1)..Len(line) : line[k] \in Whitespace
            /\ \A k \in 1..Len(ExitWord) :
                  line[lead + k] \in {ExitWord[k], UpperOf(ExitWord[k])}

\* C5: a line that spells exit is the last line read; the loop has been
\* left by then, no task(question) was called for it and no further prompt
\* was printed.
C5_ExitTerminatesLoop ==
    \A k \in 1..Len(inputs) :
        SpelledExit(inputs[k]) =>
            /\ k = Len(inputs)
            /\ InTeardownOrAfter
            /\ left = "exit"
            /\ Count("data", "task") = k - 1
            /\ prompts = k

C5_Witness ==
    /\ pc = "done"
    /\ Len(inputs) = 2
    /\ inputs[2] = <<" ","E","x","i","t","\t">>
    /\ Count("data", "task") = 1

----------------------------------------------------------------------------
(* C6 *)

----------------------------------------------------------------------------
(* C7 *)

\* an interruption arrived during the setup prints
SetupInterrupted == pc \in {"outer", "done"} /\ csv_exists = "unchecked"

\* an interruption arrived somewhere in main()
Interrupted ==
    \/ SetupInterrupted
    \/ left = "sigint"
    \/ \E k \in CallIndex : calls[k].result = "interrupt"

\* C7: a run that was interrupted anywhere ends with status 0.
C7_InterruptRecovered ==
    (pc = "done" /\ Interrupted) => status = 0

C7_Witness ==
    /\ pc = "done"
    /\ \E k \in CallIndex : IsQuestionCall(k, "interrupt")
    /\ ~TeardownInterrupted
    /\ status = 0

----------------------------------------------------------------------------
(* C8 *)

\* a constructor, the file-understanding call or an add_context call raised
\* an Exception
SetupFailed ==
    \E k \in CallIndex :
        /\ calls[k].result = "error"
        /\ \/ calls[k].op \in {"init", "add_context"}
           \/ calls[k].op = "task" /\ calls[k].agent = "file"

\* C8: after a failure in setup the loop is never entered, and when the
\* process has exited every constructed agent was cleaned up and the status
\* is 1.
C8_SetupFailureIsFatal ==
    SetupFailed =>
        /\ prompts = 0
        /\ inputs = <<>>
        /\ Count("data", "task") = 0
        /\ pc = "done" =>
              /\ \A a \in {"file", "data"} : Constructed(a) => Count(a, "cleanup") = 1
              /\ status = 1

----------------------------------------------------------------------------
(* C9 *)

DataConstructionFailed ==
    \E k \in CallIndex :
        calls[k].agent = "data" /\ calls[k].op = "init" /\ calls[k].result # "ok"

\* C9: when FileAccessAgent() returned and PythonExecAgent() did not, the
\* finally block invokes cleanup() on the file-access agent; cleanup() is
\* only ever invoked on an agent whose constructor returned.
C9_PartialConstruction ==
    /\ (Constructed("file") /\ DataConstructionFailed /\ pc \in {"cleanup_data", "outer", "done"})
          => Count("file", "cleanup") = 1
    /\ \A k \in CallIndex : calls[k].op = "cleanup" => Constructed(calls[k].agent)

C9_Witness ==
    /\ pc = "done"
    /\ Constructed("file")
    /\ DataConstructionFailed
    /\ Count("file", "cleanup") = 1
    /\ Count("data", "cleanup") = 0

----------------------------------------------------------------------------
(* C10 *)

----------------------------------------------------------------------------
(* C11 *)

\* the calls setup makes before the loop, all returning
SetupCalls ==
    << Call("file", "init", NoArg, "ok"),
       Call("data", "init", NoArg, "ok"),
       Call("file", "task", prompt, "ok"),
       Call("data", "add_context", prompt, "ok"),
       Call("data", "add_context", file_ingestion_agent_output, "ok") >>

\* the loop was reached: a question prompt was printed or is about to be
LoopReached == prompts >= 1 \/ pc = "await_input"

FirstInputIsExit == Len(inputs) >= 1 /\ SpelledExit(inputs[1])

\* C11: once the loop is reached the log starts with the five setup calls,
\* with one file-understanding call and two add_context calls in all; when
\* the first line read spells exit, no task(question) is ever called and the
\* run ends with status 0 and one cleanup() per agent.
C11_SetupThenImmediateExit ==
    /\ LoopReached =>
          /\ Len(calls) >= Len(SetupCalls)
          /\ SubSeq(calls, 1, Len(SetupCalls)) = SetupCalls
          /\ Count("file", "task") = 1
          /\ Count("data", "add_context") = 2
    /\ prompts = 0 => Count("data", "task") = 0 /\ inputs = <<>>
    /\ FirstInputIsExit =>
          /\ Count("data", "task") = 0
          /\ pc = "done" =>
                /\ status = 0
                /\ Count("file", "cleanup") = 1
                /\ Count("data", "cleanup") = 1

----------------------------------------------------------------------------
(* C12 *)

Seeded == <<prompt, file_ingestion_agent_output>>

IsPrefix(s, t) == Len(s) <= Len(t) /\ SubSeq(t, 1, Len(s)) = s

\* the texts passed to add_context calls that returned, in call order
RECURSIVE ContextArgs(_)
ContextArgs(log) ==
    IF log = <<>> THEN <<>>
    ELSE LET rest == ContextArgs(SubSeq(log, 1, Len(log) - 1))
             last == log[Len(log)]
         IN IF last.op = "add_context" /\ last.result = "ok"
            THEN Append(rest, last.arg)
            ELSE rest

\* C12: the context is always a prefix of [prompt, file-access output] and
\* equals the texts add_context was given, in order; it is exactly that
\* pair once the loop is reached; and every step keeps the old context as a
\* prefix of the new one, leaving it unchanged from the loop onwards.
C12_ContextAppendOnly ==
    /\ [](/\ IsPrefix(context, Seeded)
          /\ context = ContextArgs(calls)
          /\ LoopReached => context = Seeded)
    /\ [][/\ IsPrefix(context, context')
          /\ LoopReached => context' = context]_vars

C12_Witness ==
    /\ pc = "done"
    /\ context = Seeded
    /\ Count("data", "task") = 2
    /\ Count("data", "cleanup") = 1

----------------------------------------------------------------------------
(* C13 *)

IsQuestionEntry(c) == c.agent = "data" /\ c.op = "task"

\* the task(question) calls made so far, in order
QuestionCalls == SelectSeq(calls, IsQuestionEntry)

\* text is line without its leading and trailing whitespace
IsTrimOf(text, line) ==
    /\ text = <<>> \/ (text[1] \notin Whitespace /\ text[Len(text)] \notin Whitespace)
    /\ \E lead \in 0..Len(line) :
          /\ lead + Len(text) <= Len(line)
          /\ \A k \in 1..Len(line) :
                IF k > lead /\ k <= lead + Len(text)
                THEN line[k] = text[k - lead]
                ELSE line[k] \in Whitespace

\* the lines read so far that do not spell exit
OrdinaryLines == {k \in 1..Len(inputs) : ~SpelledExit(inputs[k])}

\* C13: outside the moment between reading a line and dispatching it, there
\* are as many task(question) calls as lines read that do not spell exit;
\* the k-th call carries the trimmed text of the k-th line read.
C13_OneTaskPerQuestion ==
    /\ Len(QuestionCalls) =
          Cardinality(OrdinaryLines) - (IF pc = "ask" THEN 1 ELSE 0)
    /\ \A k \in 1..Len(QuestionCalls) :
          /\ k \in OrdinaryLines
          /\ IsTrimOf(QuestionCalls[k].arg, inputs[k])

\* one question, then exit
C13_Witness ==
    /\ pc = "done"
    /\ inputs = << <<" ","Q"," ">>, <<"E","X","I","T">> >>
    /\ Len(QuestionCalls) = 1
    /\ QuestionCalls[1].arg = <<"Q">>
    /\ QuestionCalls[1].result = "ok"
    /\ status = 0

----------------------------------------------------------------------------
(* C14 *)

\* the console read ended with end-of-input or an interrupt
InputEnded == left \in {"eof", "sigint"}

\* C14: after end-of-input or an interrupt at the prompt the loop is left
\* with nothing in flight from the read and without a task(question) call
\* for it, and when the process has exited both cleanups have run.
C14_InputEndIsNormalExit ==
    InputEnded =>
        /\ InTeardownOrAfter
        /\ Len(QuestionCalls) = Len(inputs)
        /\ prompts = Len(inputs) + 1
        /\ pending # "none" => TeardownInterrupted
        /\ pc = "done" =>
              /\ Count("file", "cleanup") = 1
              /\ Count("data", "cleanup") = 1
              /\ status = 0

----------------------------------------------------------------------------
(* C15 *)

\* C15: no call on an agent follows a cleanup() call on that agent, and
\* every task(question) call is preceded by the two add_context calls, both
\* returned, prompt first.
C15_LifecycleOrder ==
    /\ \A k \in CallIndex :
          calls[k].op = "cleanup" =>
              \A j \in CallIndex : j > k => calls[j].agent # calls[k].agent
    /\ \A k \in CallIndex :
          IsQuestionEntry(calls[k]) =>
              \E i \in 1..k : \E j \in 1..k :
                  /\ i < j /\ j < k
                  /\ calls[i] = Call("data", "add_context", prompt, "ok")
                  /\ calls[j] = Call("data", "add_context", file_ingestion_agent_output, "ok")

C15_Witness ==
    /\ pc = "done"
    /\ Len(QuestionCalls) = 2
    /\ calls[Len(calls) - 1].agent = "file" /\ calls[Len(calls) - 1].op = "cleanup"
    /\ calls[Len(calls)].agent = "data" /\ calls[Len(calls)].op = "cleanup"

----------------------------------------------------------------------------
(* C16 *)

\* main() eventually exits
Terminates == <>(pc = "done")

\* at exit, cleanup() was attempted on every agent whose constructor returned
CleanupAttemptedAtExit ==
    pc = "done" =>
        \A a \in {"file", "data"} : Constructed(a) => Count(a, "cleanup") >= 1

\* the loop is left only on exit, end-of-input or an interruption
LoopLeftOnRequest ==
    (pc \in {"await_input", "ask"} /\ pc' \notin {"await_input", "ask"}) =>
        /\ pc' = "cleanup_file"
        /\ pc = "await_input" => left' \in {"exit", "eof", "sigint"}
        /\ pc = "ask" => left' = "interrupt" /\ calls'[Len(calls')].result = "interrupt"

\* C16: main() eventually exits, it exits only after cleanup() was attempted
\* on every constructed agent, and the loop is never left while the console
\* delivers ordinary questions that are answered or fail.
C16_Termination ==
    /\ Terminates
    /\ []CleanupAttemptedAtExit
    /\ [][LoopLeftOnRequest]_vars

----------------------------------------------------------------------------
(* C17 *)

\* C17: the step in which task(question) is interrupted leaves the loop for
\* the finally block with the interrupt in flight; from then on no prompt is
\* printed and no line is read, the interrupt is still in flight when the
\* outermost handlers are reached, and the run ends with status 0.
C17_InterruptLeavesLoop ==
    /\ [][(pc = "ask" /\ calls'[Len(calls')].result = "interrupt") =>
             /\ pc' = "cleanup_file"
             /\ pending' = "interrupt"
             /\ left' = "interrupt"
             /\ prompts' = prompts]_vars
    /\ [](\A k \in CallIndex :
             IsQuestionCall(k, "interrupt") =>
                /\ InTeardownOrAfter
                /\ pending = "interrupt"
                /\ Len(QuestionCalls) = Len(inputs)
                /\ prompts = Len(inputs)
                /\ \A j \in CallIndex : j > k => calls[j].op = "cleanup"
                /\ pc = "done" => status = 0)

C17_Witness ==
    /\ pc = "done"
    /\ Len(QuestionCalls) = 2
    /\ QuestionCalls[1].result = "error"
    /\ QuestionCalls[2].result = "interrupt"
    /\ Count("file", "cleanup") = 1
    /\ Count("data", "cleanup") = 1
    /\ status = 0

----------------------------------------------------------------------------
(* C18 *)

AllWhitespace(line) == \A k \in 1..Len(line) : line[k] \in Whitespace

\* C18: a line of whitespace only is read as a question: unless it is the
\* line awaiting its call, the call for it is task("") ; and when that call
\* returned or raised an Exception the loop is at the prompt again or has
\* printed the next prompt.
C18_EmptyLineIsQuestion ==
    \A k \in 1..Len(inputs) :
        AllWhitespace(inputs[k]) =>
            IF k = Len(inputs) /\ pc = "ask"
            THEN Len(QuestionCalls) = k - 1 /\ user_input = <<>>
            ELSE /\ Len(QuestionCalls) >= k
                 /\ QuestionCalls[k].arg = <<>>
                 /\ QuestionCalls[k].result \in {"ok", "error"} =>
                       \/ pc = "await_input" /\ prompts = k
                       \/ prompts >= k + 1

C18_Witness ==
    /\ inputs = << <<" ">>, <<>> >>
    /\ Len(QuestionCalls) = 2
    /\ QuestionCalls[1].arg = <<>>
    /\ QuestionCalls[2].arg = <<>>
    /\ pc = "await_input"
    /\ prompts = 2

====
